---- MODULE Spec2Model ----
(***************************************************************************)
(* Model of the theme-index build pipeline, src/scripts/update-themes.ts.  *)
(*                                                                         *)
(* Strings are finite sequences of symbols.  A symbol is one character     *)
(* ("/", ":", " ", "\n", a quote) or a run of characters that the inputs   *)
(* of this model never split ("http", "github.com", ".git", "acme").       *)
(* The string operations of the source (trim, slice, indexOf, startsWith,  *)
(* endsWith, split) are modelled as the same operations on sequences.      *)
(***************************************************************************)
EXTENDS Integers, Sequences, FiniteSets, TLC

(***************************************************************************)
(* Bounds of the model.                                                    *)
(***************************************************************************)
\* Number of descriptor files (*.md) the listing may name.
MaxFiles == 3
\* Batch size of the bulk query.  The source uses 50 (update-themes.ts:291);
\* the model runs the same loop with a small size so that several batches
\* occur within MaxFiles groups.
BATCH_SIZE == 2
\* Chunk size of the concurrent descriptor fetch.  The source uses 15
\* (update-themes.ts:200); scaled like BATCH_SIZE.
CHUNK_SIZE == 2

(***************************************************************************)
(* String helpers (JavaScript String methods on symbol sequences).         *)
(***************************************************************************)
\* The value of an absent property / missing optional argument.
undefined == << "<undefined>" >>

\* JavaScript truthiness of a string-or-undefined value.
Truthy(s) == s # undefined /\ s # << >>

WhiteSpace == {" ", "\r", "\t"}

RECURSIVE TrimStart(_)
TrimStart(s) ==
    IF s # << >> /\ Head(s) \in WhiteSpace THEN TrimStart(Tail(s)) ELSE s

RECURSIVE TrimEnd(_)
TrimEnd(s) ==
    IF s # << >> /\ s[Len(s)] \in WhiteSpace
    THEN TrimEnd(SubSeq(s, 1, Len(s) - 1))
    ELSE s

\* String.prototype.trim
Trim(s) == TrimEnd(TrimStart(s))

\* String.prototype.startsWith / endsWith
StartsWith(s, p) == Len(p) <= Len(s) /\ SubSeq(s, 1, Len(p)) = p
EndsWith(s, p) == Len(p) <= Len(s) /\ SubSeq(s, Len(s) - Len(p) + 1, Len(s)) = p

\* String.prototype.indexOf for a one-symbol needle, 1-based; 0 when absent
\* (the source's -1).
IndexOf(s, c) ==
    IF \E k \in 1..Len(s) : s[k] = c
    THEN CHOOSE k \in 1..Len(s) : s[k] = c /\ \A j \in 1..(k - 1) : s[j] # c
    ELSE 0

\* String.prototype.split for a one-symbol separator: a sequence of strings.
RECURSIVE Split(_, _)
Split(s, c) ==
    LET k == IndexOf(s, c)
    IN  IF k = 0 THEN << s >>
        ELSE << SubSeq(s, 1, k - 1) >> \o Split(SubSeq(s, k + 1, Len(s)), c)

\* Array.prototype.filter(Boolean) on a sequence of strings.
RECURSIVE FilterNonEmpty(_)
FilterNonEmpty(ss) ==
    IF ss = << >> THEN << >>
    ELSE IF Head(ss) = << >> THEN FilterNonEmpty(Tail(ss))
    ELSE << Head(ss) >> \o FilterNonEmpty(Tail(ss))

\* text.split(/\r?\n/): split at "\n" and drop a "\r" that ends a line.
SplitLines(text) ==
    LET raw == Split(text, "\n")
        n   == Len(raw)
    IN  [k \in 1..n |->
            IF k < n /\ raw[k] # << >> /\ raw[k][Len(raw[k])] = "\r"
            THEN SubSeq(raw[k], 1, Len(raw[k]) - 1)
            ELSE raw[k]]

(***************************************************************************)
(* parseFrontmatter                                                        *)
(***************************************************************************)
Delimiter == << "---" >>
DQuote == << "\"" >>
SQuote == << "'" >>

\* A variant of Unquote that removes the first and the last character of
\* every value.
UnquoteAlways(value) == SubSeq(value, 2, Len(value) - 1)

\* Lines 137-139: remove quotes if present.
Unquote(value) ==
    IF (StartsWith(value, DQuote) /\ EndsWith(value, DQuote))
         \/ (StartsWith(value, SQuote) /\ EndsWith(value, SQuote))
    THEN SubSeq(value, 2, Len(value) - 1)
    ELSE value

\* data[key] = value on a mapping from keys to values.
Assign(data, key, value) ==
    [k \in (DOMAIN data) \cup {key} |-> IF k = key THEN value ELSE data[k]]

EmptyMap == [k \in {} |-> << >>]

\* The while loop of lines 128-146, from line index i (1-based) on.
RECURSIVE ParseLines(_, _, _)
ParseLines(lines, i, data) ==
    IF i > Len(lines) \/ Trim(lines[i]) = Delimiter THEN data
    ELSE LET line       == lines[i]
             colonIndex == IndexOf(line, ":")
         IN  IF colonIndex # 0
             THEN ParseLines(lines, i + 1,
                     Assign(data,
                            Trim(SubSeq(line, 1, colonIndex - 1)),
                            Unquote(Trim(SubSeq(line, colonIndex + 1, Len(line))))))
             ELSE ParseLines(lines, i + 1, data)

\* A variant of parseFrontmatter without the test of the first line.
parseFrontmatterNoCheck(text) == ParseLines(SplitLines(text), 2, EmptyMap)

parseFrontmatter(text) ==
    LET lines == SplitLines(text)
    IN  IF Trim(lines[1]) # Delimiter THEN EmptyMap
        ELSE ParseLines(lines, 2, EmptyMap)

\* frontmatter.<field>: undefined when the mapping has no such key.
Get(data, key) == IF key \in DOMAIN data THEN data[key] ELSE undefined

(***************************************************************************)
(* getRepoInfoFromUrl                                                      *)
(***************************************************************************)
NoRepo == [owner |-> undefined, repo |-> undefined]

Schemes == { << "http" >>, << "http", "s" >> }

\* new URL(s) for the URL shapes of this model: scheme "://" host path.
\* ok = FALSE stands for the TypeError that new URL throws.
ParseURL(s) ==
    LET c == IndexOf(s, ":")
    IN  IF c > 1
           /\ SubSeq(s, 1, c - 1) \in Schemes
           /\ Len(s) >= c + 3
           /\ s[c + 1] = "/" /\ s[c + 2] = "/"
           /\ s[c + 3] \notin {"/", " ", ":"}
           /\ (Len(s) > c + 3 => s[c + 4] = "/")
           /\ \A k \in 1..Len(s) : s[k] \notin WhiteSpace
        THEN [ok |-> TRUE, hostname |-> << s[c + 3] >>,
              pathname |-> IF Len(s) > c + 3 THEN SubSeq(s, c + 4, Len(s))
                           ELSE << "/" >>]
        ELSE [ok |-> FALSE, hostname |-> << >>, pathname |-> << >>]

\* A variant of getRepoInfoFromUrl that accepts every hostname.
getRepoInfoFromUrlAnyHost(url) ==
    IF ~Truthy(url) THEN NoRepo
    ELSE LET t0 == Trim(url)
             t1 == IF EndsWith(t0, << ".git" >>)
                   THEN SubSeq(t0, 1, Len(t0) - 1) ELSE t0
             cleanUrl == IF EndsWith(t1, << "/" >>)
                         THEN SubSeq(t1, 1, Len(t1) - 1) ELSE t1
             urlObj == ParseURL(cleanUrl)
             segments == FilterNonEmpty(Split(urlObj.pathname, "/"))
         IN  IF ~urlObj.ok THEN NoRepo
             ELSE IF Len(segments) >= 2
                  THEN [owner |-> segments[1], repo |-> segments[2]]
                  ELSE NoRepo

getRepoInfoFromUrl(url) ==
    IF ~Truthy(url) THEN NoRepo
    ELSE LET t0 == Trim(url)
             t1 == IF EndsWith(t0, << ".git" >>)
                   THEN SubSeq(t0, 1, Len(t0) - 1) ELSE t0
             cleanUrl == IF EndsWith(t1, << "/" >>)
                         THEN SubSeq(t1, 1, Len(t1) - 1) ELSE t1
             urlObj == ParseURL(cleanUrl)
             segments == FilterNonEmpty(Split(urlObj.pathname, "/"))
         IN  IF ~urlObj.ok THEN NoRepo
             ELSE IF urlObj.hostname # << "github.com" >>
                     /\ urlObj.hostname # << "www.github.com" >> THEN NoRepo
             ELSE IF Len(segments) >= 2
                  THEN [owner |-> segments[1], repo |-> segments[2]]
                  ELSE NoRepo

(***************************************************************************)
(* The outside world: the descriptor listing and the descriptor texts.     *)
(***************************************************************************)
Stems == << "keepstyle", "nord", "mono", "paper", "ink", "slate" >>

\* The k-th descriptor file of the source index.  Odd files carry the date
\* prefix of the Jekyll naming scheme.
FileName(k) ==
    IF k % 2 = 1 THEN << "2024-03-19-", Stems[k], ".md" >>
    ELSE << Stems[k], ".md" >>

DownloadUrl(k) == << "raw:", Stems[k] >>

GitHubContentFile(k) == [name |-> FileName(k), download_url |-> DownloadUrl(k)]

\* A listing entry that is not a descriptor.
IndexHtml == [name |-> << "index", ".html" >>, download_url |-> << "raw:", "index" >>]

\* The listing with n descriptor files.
Listing(n) == << IndexHtml >> \o [k \in 1..n |-> GitHubContentFile(k)]

Url(host, owner, name) ==
    << "http", "s", ":", "/", "/", host, "/", owner, "/", name >>

\* "---\n" line ... "---\n" body
FrontmatterText(lines) ==
    << "---", "\n" >> \o lines \o << "---", "\n", "body", "\n" >>

Field(key, value) == << key, ":", " " >> \o value \o << "\n" >>

\* The descriptor texts a fetch may return.
TextAcme ==
    FrontmatterText(Field("title", << "light" >>)
        \o Field("homepage", Url("github.com", "acme", "theme-x")))
TextDownloadOnly ==
    FrontmatterText(Field("title", << "\"", "mono", "\"" >>)
        \o Field("author", << "jane" >>)
        \o Field("homepage", Url("gitlab.com", "carol", "mono"))
        \o Field("download",
                 Url("github.com", "carol", "mono") \o << "/", "releases", ".git" >>))
TextBoth ==
    FrontmatterText(Field("title", << "dark" >>)
        \o Field("author", << "jane" >>)
        \o Field("homepage", Url("www.github.com", "bob", "dark") \o << "/" >>)
        \o Field("download", Url("github.com", "acme", "theme-x")))
TextJane ==
    FrontmatterText(Field("title", << "paper" >>) \o Field("author", << "jane" >>))
TextAuthorOwner ==
    FrontmatterText(Field("title", << "ink" >>)
        \o Field("homepage", Url("github.com", "author", "jane")))
TextPlain == << "#", " ", "readme", "\n" >>

Texts == { TextAcme, TextDownloadOnly, TextBoth, TextJane, TextAuthorOwner,
           TextPlain }

(***************************************************************************)
(* Per-descriptor processing (the body of the chunk callback).             *)
(***************************************************************************)
THUMBNAIL_BASE_URL ==
    << "http", "s", ":", "/", "/", "raw.githubusercontent.com", "/",
       "typora/theme.typora.io/gh-pages/media/thumbnails", "/" >>

\* A variant of ResolveRepoInfo that prefers the download URL.
ResolveRepoInfoDownloadFirst(frontmatter) ==
    LET repoInfo == getRepoInfoFromUrl(Get(frontmatter, << "download" >>))
    IN  IF repoInfo = NoRepo
        THEN getRepoInfoFromUrl(Get(frontmatter, << "homepage" >>))
        ELSE repoInfo

\* Lines 208-212: homepage first, download URL if the homepage does not resolve.
ResolveRepoInfo(frontmatter) ==
    LET repoInfo == getRepoInfoFromUrl(Get(frontmatter, << "homepage" >>))
    IN  IF repoInfo = NoRepo
        THEN getRepoInfoFromUrl(Get(frontmatter, << "download" >>))
        ELSE repoInfo

\* Lines 214-218.
NormalizeThumbnail(thumbnail) ==
    IF Truthy(thumbnail) /\ ~StartsWith(thumbnail, << "http" >>)
    THEN THUMBNAIL_BASE_URL \o
         (IF StartsWith(thumbnail, << "/" >>) THEN Tail(thumbnail) ELSE thumbnail)
    ELSE thumbnail

DatePrefixes == { "2024-03-19-" }

\* file.name.replace(/\.md$/i, '').replace(/^\d{4}-\d{1,2}-\d{1,2}-/, '')
TitleFromFileName(name) ==
    LET noExt == IF name # << >> /\ name[Len(name)] \in {".md", ".MD"}
                 THEN SubSeq(name, 1, Len(name) - 1) ELSE name
    IN  IF noExt # << >> /\ Head(noExt) \in DatePrefixes THEN Tail(noExt) ELSE noExt

\* Lines 206-234: the ThemeItem pushed for a file whose text was fetched.
ThemeItem(file, text) ==
    LET frontmatter == parseFrontmatter(text)
        repoInfo    == ResolveRepoInfo(frontmatter)
        fmTitle     == Get(frontmatter, << "title" >>)
    IN  [ id        |-> file.name,
          fileName  |-> file.name,
          title     |-> IF ~Truthy(fmTitle) THEN TitleFromFileName(file.name)
                        ELSE fmTitle,
          author    |-> Get(frontmatter, << "author" >>),
          homepage  |-> Get(frontmatter, << "homepage" >>),
          download  |-> Get(frontmatter, << "download" >>),
          thumbnail |-> NormalizeThumbnail(Get(frontmatter, << "thumbnail" >>)),
          repoOwner |-> repoInfo.owner,
          repoName  |-> repoInfo.repo ]

(***************************************************************************)
(* Grouping (lines 243-276).                                               *)
(***************************************************************************)
\* A template literal `${a}/${b}`.
Join(a, b) == a \o << "/" >> \o b

\* A variant of GroupKey whose tier-1 key is written name first.
GroupKeyNameFirst(theme) ==
    IF Truthy(theme.repoOwner) /\ Truthy(theme.repoName)
    THEN [groupId |-> Join(theme.repoName, theme.repoOwner),
          owner   |-> theme.repoOwner,
          name    |-> theme.repoName]
    ELSE IF Truthy(theme.author)
    THEN [groupId |-> Join(<< "author" >>, theme.author),
          owner   |-> theme.author,
          name    |-> IF Truthy(theme.repoName) THEN theme.repoName
                      ELSE << "themes" >>]
    ELSE [groupId |-> Join(<< "standalone" >>, theme.id),
          owner   |-> << "unknown" >>,
          name    |-> theme.title]

\* Lines 245-262: the key, owner and name chosen for one theme.
GroupKey(theme) ==
    IF Truthy(theme.repoOwner) /\ Truthy(theme.repoName)
    THEN [groupId |-> Join(theme.repoOwner, theme.repoName),
          owner   |-> theme.repoOwner,
          name    |-> theme.repoName]
    ELSE IF Truthy(theme.author)
    THEN [groupId |-> Join(<< "author" >>, theme.author),
          owner   |-> theme.author,
          name    |-> IF Truthy(theme.repoName) THEN theme.repoName
                      ELSE << "themes" >>]
    ELSE [groupId |-> Join(<< "standalone" >>, theme.id),
          owner   |-> << "unknown" >>,
          name    |-> theme.title]

\* group.stats is optional: the empty set when unset, else a singleton.
NoStats == {}

\* A variant of AddTheme that replaces the member list of an existing group.
AddThemeOverwrite(groups, theme) ==
    LET key == GroupKey(theme)
    IN  IF \E g \in 1..Len(groups) : groups[g].id = key.groupId
        THEN [g \in 1..Len(groups) |->
                IF groups[g].id = key.groupId
                THEN [groups[g] EXCEPT !.themes = << theme >>]
                ELSE groups[g]]
        ELSE Append(groups,
                    [ id           |-> key.groupId,
                      repoOwner    |-> key.owner,
                      repoName     |-> IF Truthy(key.name) THEN key.name
                                       ELSE << "unknown" >>,
                      themes       |-> << theme >>,
                      loadingStats |-> FALSE,
                      stats        |-> NoStats ])

\* A variant of AddTheme that puts a descriptor without a resolved
\* repository into the most recently created group, when there is one.
AddThemeSticky(groups, theme) ==
    LET key == GroupKey(theme)
        target == IF ~Truthy(theme.repoOwner) /\ groups # << >>
                  THEN groups[Len(groups)].id ELSE key.groupId
    IN  IF \E g \in 1..Len(groups) : groups[g].id = target
        THEN [g \in 1..Len(groups) |->
                IF groups[g].id = target
                THEN [groups[g] EXCEPT !.themes = Append(@, theme)]
                ELSE groups[g]]
        ELSE Append(groups,
                    [ id           |-> key.groupId,
                      repoOwner    |-> key.owner,
                      repoName     |-> IF Truthy(key.name) THEN key.name
                                       ELSE << "unknown" >>,
                      themes       |-> << theme >>,
                      loadingStats |-> FALSE,
                      stats        |-> NoStats ])

\* Lines 264-273 for one theme.  The groups are kept in insertion order, the
\* order Object.values enumerates the keys of the groups object in.
AddTheme(groups, theme) ==
    LET key == GroupKey(theme)
    IN  IF \E g \in 1..Len(groups) : groups[g].id = key.groupId
        THEN [g \in 1..Len(groups) |->
                IF groups[g].id = key.groupId
                THEN [groups[g] EXCEPT !.themes = Append(@, theme)]
                ELSE groups[g]]
        ELSE Append(groups,
                    [ id           |-> key.groupId,
                      repoOwner    |-> key.owner,
                      repoName     |-> IF Truthy(key.name) THEN key.name
                                       ELSE << "unknown" >>,
                      themes       |-> << theme >>,
                      loadingStats |-> FALSE,
                      stats        |-> NoStats ])

\* themes.forEach(...) followed by Object.values(groups).
RECURSIVE GroupThemes(_, _)
GroupThemes(groups, ts) ==
    IF ts = << >> THEN groups
    ELSE GroupThemes(AddTheme(groups, Head(ts)), Tail(ts))

\* A variant of IsValidGroup without the author/ test.
IsValidGroupNoAuthor(g) ==
    /\ ~StartsWith(g.id, << "standalone", "/" >>)
    /\ g.repoOwner # << "unknown" >>

\* Lines 279-283: the filter predicate of validGroups.
IsValidGroup(g) ==
    /\ ~StartsWith(g.id, << "author", "/" >>)
    /\ ~StartsWith(g.id, << "standalone", "/" >>)
    /\ g.repoOwner # << "unknown" >>

\* validGroups as the indices into groupList of the groups it references.
RECURSIVE FilterValid(_, _)
FilterValid(groups, k) ==
    IF k > Len(groups) THEN << >>
    ELSE (IF IsValidGroup(groups[k]) THEN << k >> ELSE << >>)
         \o FilterValid(groups, k + 1)

(***************************************************************************)
(* Bulk query results (lines 312-348).                                     *)
(***************************************************************************)
\* What a bulk response may hold under one alias.  A connection field
\* (stargazers, issues) is the empty set when null, else {totalCount}.
RepoDataNull ==
    [ present |-> FALSE, stargazers |-> {}, issues |-> {},
      pushedAt |-> << >>, updatedAt |-> << >>,
      description |-> << >>, license |-> << >> ]
RepoDataFull ==
    [ present |-> TRUE, stargazers |-> {42}, issues |-> {3},
      pushedAt |-> << "2024-05-01T00:00:00Z" >>,
      updatedAt |-> << "2024-06-01T00:00:00Z" >>,
      description |-> << "a theme" >>, license |-> << "MIT" >> ]
RepoDataNullFields ==
    [ present |-> TRUE, stargazers |-> {}, issues |-> {},
      pushedAt |-> << >>, updatedAt |-> << "2024-06-01T00:00:00Z" >>,
      description |-> << >>, license |-> << >> ]

RepoDatas == { RepoDataNull, RepoDataFull, RepoDataNullFields }

\* The parsed responses to a bulk query of n aliases: with a data object
\* (alias idx -> repository data or null), or without one.
NoDataResult == [hasData |-> FALSE, data |-> << >>]
Results(n) ==
    { [hasData |-> TRUE, data |-> d] : d \in [1..n -> RepoDatas] }
        \cup { NoDataResult }

\* (result.data || {})[alias]
RepoDataOf(result, idx) ==
    IF result.hasData /\ idx \in DOMAIN result.data THEN result.data[idx]
    ELSE RepoDataNull

\* A variant of the not-found value that also raises the error flag.
NotFoundStatsWithError ==
    [ stars |-> 0, lastCommitAt |-> << >>, isNotFound |-> TRUE, error |-> TRUE ]

\* Lines 337-342.
NotFoundStats ==
    [ stars |-> 0, lastCommitAt |-> << >>, isNotFound |-> TRUE, error |-> FALSE ]

\* Reading repoData.stargazers.totalCount or repoData.issues.totalCount of a
\* null connection raises a TypeError.
ReadThrows(repoData) ==
    repoData.present /\ (repoData.stargazers = {} \/ repoData.issues = {})

TotalCount(connection) == CHOOSE n \in connection : TRUE

\* Lines 326-343: the stats assigned for one alias (when no read throws).
StatsFor(repoData) ==
    IF repoData.present
    THEN [ stars        |-> TotalCount(repoData.stargazers),
           lastCommitAt |-> IF Truthy(repoData.pushedAt) THEN repoData.pushedAt
                            ELSE repoData.updatedAt,
           description  |-> repoData.description,
           license      |-> repoData.license,
           openIssues   |-> TotalCount(repoData.issues),
           error        |-> FALSE ]
    ELSE NotFoundStats

\* batch.forEach((group, idx) => ...) from position idx on; an exception
\* raised by a read ends the loop (it is caught at line 346).  writes counts
\* the assignments to each group's stats field.
RECURSIVE ApplyBatch(_, _, _, _, _)
ApplyBatch(groups, writes, batch, result, idx) ==
    IF idx > Len(batch) \/ ReadThrows(RepoDataOf(result, idx))
    THEN [groups |-> groups, writes |-> writes]
    ELSE ApplyBatch(
            [groups EXCEPT ![batch[idx]].stats = { StatsFor(RepoDataOf(result, idx)) }],
            [writes EXCEPT ![batch[idx]] = @ + 1],
            batch, result, idx + 1)

\* A variant of BatchSlice that takes one group too many.
BatchSliceOverlap(valid, i) ==
    SubSeq(valid, i, IF i + BATCH_SIZE < Len(valid) THEN i + BATCH_SIZE
                     ELSE Len(valid))

\* validGroups.slice(i, i + BATCH_SIZE), i 1-based.
BatchSlice(valid, i) ==
    SubSeq(valid, i, IF i + BATCH_SIZE - 1 < Len(valid) THEN i + BATCH_SIZE - 1
                     ELSE Len(valid))

\* files.filter(f => f.name.endsWith('.md'))
RECURSIVE FilterMd(_)
FilterMd(fs) ==
    IF fs = << >> THEN << >>
    ELSE (IF EndsWith(Head(fs).name, << ".md" >>) THEN << Head(fs) >> ELSE << >>)
         \o FilterMd(Tail(fs))

(***************************************************************************)
(* State of one run of main().                                             *)
(***************************************************************************)
VARIABLES
    pc,           \* where main() is: start, await_list, chunk_loop,
                  \* await_chunk, batch_loop, await_graphql, exited
    token,        \* whether process.env.GITHUB_TOKEN is set
    files,        \* validFiles
    ci,           \* the chunk loop's i (1-based)
    pending,      \* indices into files of the descriptor fetches in flight
    themes,       \* the themes array
    groupList,    \* Object.values(groups)
    validGroups,  \* indices into groupList of the groups validGroups holds
    bi,           \* the batch loop's i (1-based)
    inflight,     \* batch starts whose bulk query is in flight
    batchLog,     \* batch start -> how its bulk query ended
    statsWrites,  \* per group: assignments made to its stats field
    requests,     \* kinds of network request issued so far
    issued,       \* the batches queried so far, in the order they were sent
    listing,      \* the listing request: none, pending, ok, failed
    artifact,     \* the file at OUTPUT_PATH
    exitCode,     \* -1 while running, else the exit status of the process
    call,         \* a call of one of the helper functions: its argument
                  \* and, once it has returned, its result
    appThemes,    \* client: theme id -> [repo, loadingStats, stats]
    apiToken,     \* client: whether a token is entered
    rateLimitExceeded,  \* client: the rate-limit warning flag
    timer,        \* client: "none", "armed" (setTimeout pending) or "due"
    toUpdate,     \* client: themesToUpdate captured by the current effect
    batches,      \* client: the queue batches whose lookups are in flight
    singles       \* client: the themes with a single-theme lookup in flight

mainVars == << pc, token, files, ci, pending, themes, groupList, validGroups,
               bi, inflight, batchLog, statsWrites, requests, issued, listing,
               artifact, exitCode >>

appVars == << appThemes, apiToken, rateLimitExceeded, timer, toUpdate, batches,
              singles >>

vars == << mainVars, call, appVars >>

\* No helper call is being observed.
NoCall == [fn |-> "none", arg |-> << >>, ret |-> {}]

PreviousArtifact == [state |-> "previous", groups |-> << >>]

\* The interactive client is not running.
AppNotStarted ==
    /\ appThemes = << >>
    /\ apiToken = FALSE
    /\ rateLimitExceeded = FALSE
    /\ timer = "none"
    /\ toUpdate = << >>
    /\ batches = << >>
    /\ singles = << >>

Init ==
    /\ pc = "start"
    /\ token \in BOOLEAN
    /\ files = << >>
    /\ ci = 1
    /\ pending = {}
    /\ themes = << >>
    /\ groupList = << >>
    /\ validGroups = << >>
    /\ bi = 1
    /\ inflight = {}
    /\ batchLog = EmptyMap
    /\ statsWrites = << >>
    /\ requests = {}
    /\ issued = << >>
    /\ listing = "none"
    /\ artifact = PreviousArtifact
    /\ exitCode = -1
    /\ call = NoCall
    /\ AppNotStarted

\* A variant of Exit1 that reports the error and carries on.
Exit1FallThrough ==
    /\ pc' = "chunk_loop"
    /\ UNCHANGED exitCode

\* process.exit(1)
Exit1 ==
    /\ pc' = "exited"
    /\ exitCode' = 1

\* Lines 174-187: the credential check, then the listing request.
Start ==
    /\ pc = "start"
    /\ IF ~token
       THEN Exit1 /\ UNCHANGED << requests, listing >>
       ELSE /\ pc' = "await_list"
            /\ requests' = requests \cup {"list"}
            /\ listing' = "pending"
            /\ UNCHANGED exitCode
    /\ UNCHANGED << appVars, call, token, issued, files, ci, pending, themes, groupList, validGroups,
                    bi, inflight, batchLog, statsWrites, artifact >>

\* Lines 187-189: the listing arrives with n descriptor files.
ListOk(n) ==
    /\ pc = "await_list"
    /\ listing' = "ok"
    /\ files' = FilterMd(Listing(n))
    /\ ci' = 1
    /\ pc' = "chunk_loop"
    /\ UNCHANGED << appVars, call, token, issued, pending, themes, groupList, validGroups, bi,
                    inflight, batchLog, statsWrites, requests, artifact, exitCode >>

\* Lines 190-193: fetchJson rejects (status, JSON, network).
ListFail ==
    /\ pc = "await_list"
    /\ listing' = "failed"
    /\ Exit1
    /\ UNCHANGED << appVars, call, token, issued, files, ci, pending, themes, groupList, validGroups,
                    bi, inflight, batchLog, statsWrites, requests, artifact >>

\* Lines 201-205: chunk.map starts the fetch of every file of the chunk.
StartChunk ==
    /\ pc = "chunk_loop"
    /\ ci <= Len(files)
    /\ pending' = { f \in 1..Len(files) : ci <= f /\ f < ci + CHUNK_SIZE }
    /\ requests' = requests \cup {"text"}
    /\ pc' = "await_chunk"
    /\ UNCHANGED << appVars, call, token, issued, listing, files, ci, themes, groupList, validGroups, bi,
                    inflight, batchLog, statsWrites, artifact, exitCode >>

\* Promise.all resolves once every callback of the chunk has returned.
ChunkStep(f) ==
    /\ pending' = pending \ {f}
    /\ IF pending \ {f} = {}
       THEN pc' = "chunk_loop" /\ ci' = ci + CHUNK_SIZE
       ELSE UNCHANGED << pc, ci >>

\* Lines 205-234: the fetch of file f resolves with text.
FetchTextOk(f, text) ==
    /\ pc = "await_chunk"
    /\ f \in pending
    /\ themes' = Append(themes, ThemeItem(files[f], text))
    /\ ChunkStep(f)
    /\ UNCHANGED << appVars, call, token, issued, listing, files, groupList, validGroups, bi, inflight,
                    batchLog, statsWrites, requests, artifact, exitCode >>

\* A variant of FetchTextFail that lets the rejection end the run.
FetchTextFailAbort(f) ==
    /\ pc = "await_chunk"
    /\ f \in pending
    /\ pc' = "exited"
    /\ exitCode' = 1
    /\ UNCHANGED << appVars, call, token, issued, listing, files, ci, pending, themes, groupList,
                    validGroups, bi, inflight, batchLog, statsWrites, requests,
                    artifact >>

\* Lines 235-237: the fetch of file f rejects; the file is skipped.
FetchTextFail(f) ==
    /\ pc = "await_chunk"
    /\ f \in pending
    /\ ChunkStep(f)
    /\ UNCHANGED << appVars, call, token, issued, listing, files, themes, groupList, validGroups, bi, inflight,
                    batchLog, statsWrites, requests, artifact, exitCode >>

\* Lines 243-283: grouping and the choice of the groups to enrich.
Group ==
    /\ pc = "chunk_loop"
    /\ ci > Len(files)
    /\ groupList' = GroupThemes(<< >>, themes)
    /\ validGroups' = FilterValid(groupList', 1)
    /\ statsWrites' = [g \in 1..Len(groupList') |-> 0]
    /\ bi' = 1
    /\ pc' = "batch_loop"
    /\ UNCHANGED << appVars, call, token, issued, listing, files, ci, pending, themes, inflight, batchLog,
                    requests, artifact, exitCode >>

\* A variant of IssueBatch that does not await the query.
IssueBatchNoAwait ==
    /\ pc = "batch_loop"
    /\ bi <= Len(validGroups)
    /\ inflight' = inflight \cup {bi}
    /\ issued' = Append(issued, BatchSlice(validGroups, bi))
    /\ requests' = requests \cup {"graphql"}
    /\ bi' = bi + BATCH_SIZE
    /\ UNCHANGED << appVars, call, pc, token, listing, files, ci, pending, themes, groupList,
                    validGroups, batchLog, statsWrites, artifact, exitCode >>

\* Lines 293-313: the bulk query of the batch starting at bi is sent and awaited.
IssueBatch ==
    /\ pc = "batch_loop"
    /\ bi <= Len(validGroups)
    /\ inflight' = inflight \cup {bi}
    /\ issued' = Append(issued, BatchSlice(validGroups, bi))
    /\ requests' = requests \cup {"graphql"}
    /\ pc' = "await_graphql"
    /\ UNCHANGED << appVars, call, token, listing, files, ci, pending, themes, groupList, validGroups,
                    bi, batchLog, statsWrites, artifact, exitCode >>

\* Lines 313-344: fetchGraphQL returns result.
BatchResponse(result) ==
    /\ pc = "await_graphql"
    /\ bi \in inflight
    /\ LET applied == ApplyBatch(groupList, statsWrites,
                                 BatchSlice(validGroups, bi), result, 1)
       IN  /\ groupList' = applied.groups
           /\ statsWrites' = applied.writes
    /\ inflight' = inflight \ {bi}
    /\ batchLog' = Assign(batchLog, bi, [threw |-> FALSE, result |-> result])
    /\ bi' = bi + BATCH_SIZE
    /\ pc' = "batch_loop"
    /\ UNCHANGED << appVars, call, token, issued, listing, files, ci, pending, themes, validGroups, requests,
                    artifact, exitCode >>

\* A variant of BatchThrow that stores an error Stats on the batch's groups.
BatchThrowPoison ==
    /\ pc = "await_graphql"
    /\ bi \in inflight
    /\ groupList' =
         [g \in 1..Len(groupList) |->
            IF \E idx \in 1..Len(BatchSlice(validGroups, bi)) :
                  BatchSlice(validGroups, bi)[idx] = g
            THEN [groupList[g] EXCEPT !.stats =
                    { [stars |-> 0, lastCommitAt |-> << >>, error |-> TRUE] }]
            ELSE groupList[g]]
    /\ inflight' = inflight \ {bi}
    /\ batchLog' = Assign(batchLog, bi, [threw |-> TRUE, result |-> NoDataResult])
    /\ bi' = bi + BATCH_SIZE
    /\ pc' = "batch_loop"
    /\ UNCHANGED << appVars, call, token, issued, listing, files, ci, pending, themes,
                    validGroups, statsWrites, requests, artifact, exitCode >>

\* Lines 104-119, 346-348: fetchGraphQL throws (network error, non-2xx
\* status, unparsable body); the batch is skipped.
BatchThrow ==
    /\ pc = "await_graphql"
    /\ bi \in inflight
    /\ inflight' = inflight \ {bi}
    /\ batchLog' = Assign(batchLog, bi, [threw |-> TRUE, result |-> NoDataResult])
    /\ bi' = bi + BATCH_SIZE
    /\ pc' = "batch_loop"
    /\ UNCHANGED << appVars, call, token, issued, listing, files, ci, pending, themes, groupList, validGroups,
                    statsWrites, requests, artifact, exitCode >>

\* Lines 356-357: the artifact is written; main() returns and the process
\* ends with status 0.
WriteOk ==
    /\ pc = "batch_loop"
    /\ bi > Len(validGroups)
    /\ artifact' = [state |-> "complete", groups |-> groupList]
    /\ exitCode' = 0
    /\ pc' = "exited"
    /\ UNCHANGED << appVars, call, token, issued, listing, files, ci, pending, themes, groupList, validGroups,
                    bi, inflight, batchLog, statsWrites, requests >>

\* Lines 356, 360: writeFileSync throws; main() rejects, the rejection is
\* handed to console.error and the process ends with status 0.  The file is
\* left as it was or truncated.
WriteFail ==
    /\ pc = "batch_loop"
    /\ bi > Len(validGroups)
    /\ artifact' \in { artifact, [state |-> "partial", groups |-> << >>] }
    /\ exitCode' = 0
    /\ pc' = "exited"
    /\ UNCHANGED << appVars, call, token, issued, listing, files, ci, pending, themes, groupList, validGroups,
                    bi, inflight, batchLog, statsWrites, requests >>

Next ==
    \/ Start
    \/ \E n \in 0..MaxFiles : ListOk(n)
    \/ ListFail
    \/ StartChunk
    \/ \E f \in pending, text \in Texts : FetchTextOk(f, text)
    \/ \E f \in pending : FetchTextFail(f)
    \/ Group
    \/ IssueBatch
    \/ \E result \in Results(Len(BatchSlice(validGroups, bi))) : BatchResponse(result)
    \/ BatchThrow
    \/ WriteOk
    \/ WriteFail

Spec == Init /\ [][Next]_vars

(***************************************************************************)
(* Vocabulary of the properties.                                           *)
(***************************************************************************)
\* The grouping pass has run.
Grouped == pc \in {"batch_loop", "await_graphql"} \/ (pc = "exited" /\ exitCode = 0)

\* main() got past the batch loop and ended.
Finished == pc = "exited" /\ exitCode = 0

Range(seq) == { seq[k] : k \in 1..Len(seq) }

RECURSIVE Flatten(_)
Flatten(seqs) == IF seqs = << >> THEN << >> ELSE Head(seqs) \o Flatten(Tail(seqs))

\* The positions (group, member) at which theme t occurs in the groups.
Occurrences(groups, t) ==
    { << g, m >> \in (1..Len(groups)) \X (1..Len(themes)) :
        m <= Len(groups[g].themes) /\ groups[g].themes[m] = t }

Resolves(url) == getRepoInfoFromUrl(url) # NoRepo

\* The descriptor takes tier 1: its homepage or its download URL resolves.
Tier1(t) == Resolves(t.homepage) \/ Resolves(t.download)

\* The position of theme t's file in the listing.
FileIndex(t) == CHOOSE f \in 1..Len(files) : files[f].name = t.id

\* The batch (a sequence of group indices) that started at index b.
BatchAt(b) == issued[((b - 1) \div BATCH_SIZE) + 1]

BatchStarts == { b \in 1..Len(validGroups) : (b - 1) % BATCH_SIZE = 0 }

(***************************************************************************)
(* C1                                                                      *)
(***************************************************************************)
\* C1: after grouping, every parsed descriptor occurs in exactly one group's
\* themes list and exactly once there, and the groups hold nothing else.
C1_EveryDescriptorInOneGroup ==
    Grouped =>
        /\ \A k \in 1..Len(themes) :
              Cardinality(Occurrences(groupList, themes[k])) = 1
        /\ \A g \in 1..Len(groupList) :
              /\ Len(groupList[g].themes) >= 1
              /\ \A m \in 1..Len(groupList[g].themes) :
                    groupList[g].themes[m] \in Range(themes)

\* A grouped run with several groups, one of which has several members.
C1_Witness ==
    /\ Grouped
    /\ Len(groupList) >= 2
    /\ \E g \in 1..Len(groupList) : Len(groupList[g].themes) >= 2

(***************************************************************************)
(* C2                                                                      *)
(***************************************************************************)
\* The key, owner and name the three-tier rule gives a descriptor.
TierRule(t) ==
    IF Resolves(t.homepage)
    THEN LET r == getRepoInfoFromUrl(t.homepage)
         IN  [groupId |-> r.owner \o << "/" >> \o r.repo,
              owner |-> r.owner, name |-> r.repo]
    ELSE IF Resolves(t.download)
    THEN LET r == getRepoInfoFromUrl(t.download)
         IN  [groupId |-> r.owner \o << "/" >> \o r.repo,
              owner |-> r.owner, name |-> r.repo]
    ELSE IF Truthy(t.author)
    THEN [groupId |-> << "author", "/" >> \o t.author,
          owner |-> t.author, name |-> << "themes" >>]
    ELSE [groupId |-> << "standalone", "/" >> \o t.id,
          owner |-> << "unknown" >>, name |-> t.title]

C3_ListingOrder ==
    (Grouped /\ Len(themes) = Len(files)) =>
        /\ \A g \in 1..Len(groupList) :
              \A m1, m2 \in 1..Len(groupList[g].themes) :
                  m1 < m2 => FileIndex(groupList[g].themes[m1])
                               < FileIndex(groupList[g].themes[m2])
        /\ \A g1, g2 \in 1..Len(groupList) :
              g1 < g2 => FileIndex(groupList[g1].themes[1])
                           < FileIndex(groupList[g2].themes[1])

(***************************************************************************)
(* C4                                                                      *)
(***************************************************************************)
\* C4: every group that holds a tier 1 descriptor is among the groups
\* selected for a bulk query, and has been queried when the run ends.
C4_Tier1Enriched ==
    Grouped =>
        \A g \in 1..Len(groupList) :
            (\E m \in 1..Len(groupList[g].themes) : Tier1(groupList[g].themes[m]))
                => /\ g \in Range(validGroups)
                   /\ Finished => g \in Range(Flatten(issued))

(***************************************************************************)
(* C5                                                                      *)
(***************************************************************************)
AcmeUrl == << "http", "s", ":", "/", "/", "github.com", "/", "acme", "/", "theme-x" >>

\* The end-to-end scenario: three descriptors, two that declare only the
\* homepage https://github.com/acme/theme-x and one that declares only the
\* author jane.
Scenario ==
    /\ Len(themes) = 3
    /\ Cardinality({ k \in 1..3 :
          /\ themes[k].homepage = AcmeUrl
          /\ themes[k].download = undefined
          /\ themes[k].author = undefined }) = 2
    /\ Cardinality({ k \in 1..3 :
          /\ themes[k].homepage = undefined
          /\ themes[k].download = undefined
          /\ themes[k].author = << "jane" >> }) = 1

\* The group with the given id, in a list that holds one.
GroupWithId(groups, id) ==
    groups[CHOOSE g \in 1..Len(groups) : groups[g].id = id]

HasTier23Member(group) ==
    \E m \in 1..Len(group.themes) : ~Tier1(group.themes[m])

\* C5: a group that holds a tier 2 or tier 3 descriptor is in no bulk query
\* and has no Stats, in memory and in the written artifact; the scenario
\* yields exactly acme/theme-x (2 members, queried, and with Stats once its
\* query was answered) and author/jane (1 member, never queried, no Stats).
C5_Tier23NeverQueried ==
    /\ Grouped =>
          \A g \in 1..Len(groupList) :
              HasTier23Member(groupList[g]) =>
                  /\ g \notin Range(validGroups)
                  /\ g \notin Range(Flatten(issued))
                  /\ groupList[g].stats = NoStats
    /\ artifact.state = "complete" =>
          \A g \in 1..Len(artifact.groups) :
              HasTier23Member(artifact.groups[g]) =>
                  artifact.groups[g].stats = NoStats
    /\ (Grouped /\ Scenario) =>
          /\ Len(groupList) = 2
          /\ { groupList[g].id : g \in 1..2 }
                = { << "acme", "/", "theme-x" >>, << "author", "/", "jane" >> }
          /\ Len(GroupWithId(groupList, << "acme", "/", "theme-x" >>).themes) = 2
          /\ Len(GroupWithId(groupList, << "author", "/", "jane" >>).themes) = 1
          /\ Len(validGroups) = 1
          /\ groupList[validGroups[1]].id = << "acme", "/", "theme-x" >>
          /\ (/\ artifact.state = "complete"
              /\ ~batchLog[1].threw
              /\ ~ReadThrows(RepoDataOf(batchLog[1].result, 1)))
                => GroupWithId(artifact.groups, << "acme", "/", "theme-x" >>).stats
                       # NoStats

\* The scenario ran to the end: acme/theme-x carries the Stats of its
\* repository in the artifact and author/jane carries none.
C5_Witness ==
    /\ Scenario
    /\ artifact.state = "complete"
    /\ GroupWithId(artifact.groups, << "acme", "/", "theme-x" >>).stats
          = { StatsFor(RepoDataFull) }
    /\ GroupWithId(artifact.groups, << "author", "/", "jane" >>).stats = NoStats

(***************************************************************************)
(* C6                                                                      *)
(***************************************************************************)
\* C6: after a batch whose bulk query returned a response, every group of
\* the batch whose alias is absent from the response data has exactly the
\* not-found Stats.
C6_AbsentIsNotFound ==
    \A b \in DOMAIN batchLog :
        ~batchLog[b].threw =>
            \A idx \in 1..Len(BatchAt(b)) :
                RepoDataOf(batchLog[b].result, idx) = RepoDataNull
                    => groupList[BatchAt(b)[idx]].stats = { NotFoundStats }

(***************************************************************************)
(* C7                                                                      *)
(***************************************************************************)
\* The Stats a response leaves on the group at position idx of its batch.
StatsLeftBy(result, idx) ==
    IF \E j \in 1..idx : ReadThrows(RepoDataOf(result, j)) THEN NoStats
    ELSE IF RepoDataOf(result, idx).present
         THEN { [ stars        |-> 42,
                  lastCommitAt |-> << "2024-05-01T00:00:00Z" >>,
                  description  |-> << "a theme" >>,
                  license      |-> << "MIT" >>,
                  openIssues   |-> 3,
                  error        |-> FALSE ] }
         ELSE { [ stars |-> 0, lastCommitAt |-> << >>,
                  isNotFound |-> TRUE, error |-> FALSE ] }

\* C7: a batch whose bulk query threw leaves the stats of each of its groups
\* unset; the groups of every other batch hold what their own response left
\* them; and a run that ends has queried every batch.
C7_ThrowLeavesBatchUnset ==
    /\ \A b \in DOMAIN batchLog :
          \A idx \in 1..Len(BatchAt(b)) :
              groupList[BatchAt(b)[idx]].stats =
                  IF batchLog[b].threw THEN NoStats
                  ELSE StatsLeftBy(batchLog[b].result, idx)
    /\ Finished => /\ DOMAIN batchLog = BatchStarts
                   /\ Flatten(issued) = validGroups

\* The first batch threw, the second was answered and one of its groups got
\* Stats, and the run ended.
C7_Witness ==
    /\ Finished
    /\ 1 \in DOMAIN batchLog /\ batchLog[1].threw
    /\ (1 + BATCH_SIZE) \in DOMAIN batchLog
    /\ ~batchLog[1 + BATCH_SIZE].threw
    /\ groupList[BatchAt(1 + BATCH_SIZE)[1]].stats # NoStats

(***************************************************************************)
(* C8                                                                      *)
(***************************************************************************)
\* C8: at most one bulk query is in flight, and while the query of a batch
\* is in flight every earlier batch has completed or failed.
C8_OneBulkQueryInFlight ==
    /\ Cardinality(inflight) <= 1
    /\ \A b \in inflight :
          \A earlier \in BatchStarts : earlier < b => earlier \in DOMAIN batchLog

\* The query of the second batch is in flight.
C8_Witness == inflight = { 1 + BATCH_SIZE }

(***************************************************************************)
(* C9                                                                      *)
(***************************************************************************)
\* C9: the batches queried are consecutive slices of the eligible groups of
\* at most BATCH_SIZE groups each, no group is in two batches, a run that
\* ends has put every eligible group into a batch, and no group's stats
\* field is written more than once.
C9_BatchesPartition ==
    /\ \A k \in 1..Len(issued) : Len(issued[k]) \in 1..BATCH_SIZE
    /\ Len(Flatten(issued)) <= Len(validGroups)
    /\ Flatten(issued) = SubSeq(validGroups, 1, Len(Flatten(issued)))
    /\ \A k1, k2 \in 1..Len(issued) :
          k1 # k2 => Range(issued[k1]) \cap Range(issued[k2]) = {}
    /\ Cardinality(Range(validGroups)) = Len(validGroups)
    /\ Finished => Flatten(issued) = validGroups
    /\ \A g \in 1..Len(statsWrites) : statsWrites[g] <= 1

\* A run that ended after two batches, each of which wrote Stats.
C9_Witness ==
    /\ Finished
    /\ Len(issued) >= 2
    /\ \A k \in 1..Len(issued) : \E g \in Range(issued[k]) : statsWrites[g] = 1

(***************************************************************************)
(* C10                                                                     *)
(***************************************************************************)
\* C10: once the credential was found absent or the listing failed, the
\* process has exited with status 1, no descriptor was fetched, no bulk
\* query was sent and the artifact is the previous one; without a credential
\* no request was made at all.
C10_FatalExit ==
    /\ ((~token /\ pc # "start") \/ listing = "failed") =>
          /\ pc = "exited"
          /\ exitCode = 1
          /\ "text" \notin requests
          /\ "graphql" \notin requests
          /\ themes = << >>
          /\ issued = << >>
          /\ artifact = PreviousArtifact
    /\ ~token => requests = {}
    /\ exitCode = 1 => (~token \/ listing = "failed")

\* The listing failed and the process has exited.
C10_Witness == listing = "failed" /\ pc = "exited" /\ exitCode = 1

(***************************************************************************)
(* C11                                                                     *)
(***************************************************************************)
\* C11: a run that has ended either wrote the artifact completely and
\* exited with status 0, or exited with a non-zero status and left the
\* artifact as it was.
C11_TwoOutcomes ==
    pc = "exited" =>
        \/ (artifact.state = "complete" /\ exitCode = 0)
        \/ (exitCode > 0 /\ artifact = PreviousArtifact)

(***************************************************************************)
(* C12                                                                     *)
(***************************************************************************)
\* C12: the failure of a descriptor fetch does not end the run: once
\* descriptors are being fetched the process never exits with a non-zero
\* status, the descriptors whose fetch succeeded are all members of some
\* group, and the artifact, once written, holds them all and comes with
\* exit status 0.
C12_DescriptorFailureTolerated ==
    /\ "text" \in requests => exitCode # 1
    /\ (pc = "exited" /\ listing = "ok") => exitCode = 0
    /\ Grouped =>
          \A k \in 1..Len(themes) :
              \E g \in 1..Len(groupList) : themes[k] \in Range(groupList[g].themes)
    /\ artifact.state = "complete" =>
          /\ exitCode = 0
          /\ \A k \in 1..Len(themes) :
                \E g \in 1..Len(artifact.groups) :
                    themes[k] \in Range(artifact.groups[g].themes)

\* A run in which a descriptor fetch failed and another succeeded, ended
\* with the artifact written.
C12_Witness ==
    /\ pc = "exited"
    /\ exitCode = 0
    /\ artifact.state = "complete"
    /\ Len(themes) >= 1
    /\ Len(themes) < Len(files)
    /\ Len(artifact.groups) >= 1

(***************************************************************************)
(* Calls of the helper functions on their own.  A call starts with an      *)
(* argument drawn from a bounded set and no result; one step applies the   *)
(* function and records what it returned.                                 *)
(***************************************************************************)
MaxSegments == 3

\* Arguments of getRepoInfoFromUrl: [scheme "://"] host path suffix, with or
\* without surrounding white space, and the undefined and empty arguments.
UrlPrefixes ==
    { << "http", "s", ":", "/", "/" >>, << "http", ":", "/", "/" >>, << >> }
UrlHosts == { "github.com", "www.github.com", "gitlab.com" }
UrlSegments == { << >>, << "acme" >>, << "theme-x" >>, << ".git" >> }
UrlSuffixes == { << >>, << ".git" >>, << "/" >>, << ".git", "/" >> }
Paddings == { << >>, << " " >> }

\* The paths of exactly n segments, each preceded by "/".
RECURSIVE Paths(_)
Paths(n) ==
    IF n = 0 THEN { << >> }
    ELSE { p \o << "/" >> \o seg : p \in Paths(n - 1), seg \in UrlSegments }

UrlInputs ==
    { pad \o pre \o << host >> \o path \o sfx \o pad :
        pad \in Paddings, pre \in UrlPrefixes, host \in UrlHosts,
        path \in UNION { Paths(n) : n \in 0..MaxSegments }, sfx \in UrlSuffixes }
        \cup { undefined, << >> }

ResolveCalls ==
    { [fn |-> "getRepoInfoFromUrl", arg |-> url, ret |-> {}] : url \in UrlInputs }

Returned == call.ret # {}
Ret == CHOOSE r \in call.ret : TRUE

\* getRepoInfoFromUrl(url) returns.
CallGetRepoInfoFromUrl ==
    /\ call.fn = "getRepoInfoFromUrl" /\ ~Returned
    /\ call' = [call EXCEPT !.ret = { getRepoInfoFromUrl(call.arg) }]
    /\ UNCHANGED << mainVars, appVars >>

\* Arguments of parseFrontmatter: a first line, one "key: value" line whose
\* value is any string of at most MaxValueLen value characters, possibly a
\* second line, and possibly the closing delimiter and a body.
MaxValueLen == 4

ValueChars == { "\"", "'", "a" }

RECURSIVE ValuesOfLen(_)
ValuesOfLen(n) ==
    IF n = 0 THEN { << >> }
    ELSE { v \o << c >> : v \in ValuesOfLen(n - 1), c \in ValueChars }

Values == UNION { ValuesOfLen(n) : n \in 0..MaxValueLen }

FirstLines ==
    { << "---" >>, << " ", "---", " " >>, << "---", "\r" >>, << "#" >>, << >> }
Keys == { << "title" >>, << "author" >> }
SecondLines ==
    { << >>, << "title", ":", " ", "b", "\n" >>, << "no colon", "\n" >> }
Closings == { << >>, << "---", "\n", "body", "\n" >> }

\* key and value are those of the first "key: value" line (the value as
\* written, before trimming); more is the second line.
ParseCall(text, key, value, more) ==
    [fn |-> "parseFrontmatter", arg |-> text, ret |-> {},
     key |-> key, value |-> value, more |-> more]

ParseCalls ==
    { ParseCall(first \o << "\n" >> \o key \o << ":" >> \o pad \o value \o pad
                    \o << "\n" >> \o more \o closing,
                key, pad \o value \o pad, more) :
        first \in FirstLines, key \in Keys, pad \in Paddings, value \in Values,
        more \in SecondLines, closing \in Closings }
        \cup { ParseCall(text, << >>, << >>, << >>) :
                 text \in { << >>, << "---" >>, << "#" >>,
                            << "title", ":", " ", "a" >> } }

\* parseFrontmatter(text) returns.
CallParseFrontmatter ==
    /\ call.fn = "parseFrontmatter" /\ ~Returned
    /\ call' = [call EXCEPT !.ret = { parseFrontmatter(call.arg) }]
    /\ UNCHANGED << mainVars, appVars >>

\* Arguments of the descriptor construction: a listed file whose name ends
\* in ".md" and the text fetched for it.
NameStems == { << >>, << "nord" >> }
MdNames ==
    { date \o stem \o << ".md" >> :
        date \in { << >>, << "2024-03-19-" >> }, stem \in NameStems }
TitleTexts ==
    { FrontmatterText(<< >>),
      FrontmatterText(Field("author", << "jane" >>)),
      FrontmatterText(Field("title", << >>)),
      FrontmatterText(Field("title", << "\"", "\"" >>)),
      FrontmatterText(Field("title", << "light" >>)),
      TextPlain }

ThemeItemCalls ==
    { [fn |-> "ThemeItem",
       arg |-> [file |-> [name |-> name, download_url |-> << "raw" >> \o name],
                text |-> text],
       ret |-> {}] : name \in MdNames, text \in TitleTexts }

\* themes.push({...}) of lines 220-231 for one file and its text.
CallThemeItem ==
    /\ call.fn = "ThemeItem" /\ ~Returned
    /\ call' = [call EXCEPT !.ret = { ThemeItem(call.arg.file, call.arg.text) }]
    /\ UNCHANGED << mainVars, appVars >>

(***************************************************************************)
(* fetchRepoStats (src/services/githubService.ts, lines 131-167).          *)
(***************************************************************************)
\* What fetch and response.json() may give.  network = FALSE stands for
\* fetch rejecting.  A body is unparsable (json() rejects), the JSON value
\* null (reading a property of it raises), or a repository object; its
\* license is << >> when null, else << spdx_id, name >>.
BodyUnparsable == [json |-> "unparsable"]
BodyNull == [json |-> "null"]
BodyFull ==
    [ json |-> "object", stargazers_count |-> 42,
      pushed_at |-> << "2024-05-01T00:00:00Z" >>,
      updated_at |-> << "2024-06-01T00:00:00Z" >>,
      license |-> << << "MIT" >>, << "MIT License" >> >>,
      open_issues_count |-> 3, description |-> << "a theme" >> ]
BodySparse ==
    [ json |-> "object", stargazers_count |-> 0,
      pushed_at |-> << >>,
      updated_at |-> << "2024-06-01T00:00:00Z" >>,
      license |-> << >>,
      open_issues_count |-> 0, description |-> << >> ]
Bodies == { BodyUnparsable, BodyNull, BodyFull, BodySparse }

Statuses == { 200, 204, 301, 403, 404, 429, 500 }

NetworkError == [network |-> FALSE, status |-> 0, body |-> BodyUnparsable]
Responses ==
    { [network |-> TRUE, status |-> st, body |-> b] :
        st \in Statuses, b \in Bodies } \cup { NetworkError }

\* response.ok
Ok(response) == response.status \in 200..299

\* data.license?.spdx_id || data.license?.name
LicenseOf(license) ==
    IF license = << >> THEN undefined
    ELSE IF Truthy(license[1]) THEN license[1] ELSE license[2]

ErrorStats == [ stars |-> 0, lastCommitAt |-> << >>, error |-> TRUE ]

\* A variant of fetchRepoStats that treats only status 403 as a rate limit.
fetchRepoStatsOnly403(response) ==
    IF ~response.network THEN ErrorStats
    ELSE IF response.status = 403
    THEN [ stars |-> 0, lastCommitAt |-> << >>, error |-> TRUE,
           isRateLimit |-> TRUE ]
    ELSE IF response.status = 404
    THEN [ stars |-> 0, lastCommitAt |-> << >>, isNotFound |-> TRUE,
           error |-> FALSE ]
    ELSE IF ~Ok(response) THEN ErrorStats
    ELSE IF response.body.json # "object" THEN ErrorStats
    ELSE LET data == response.body
         IN  [ stars        |-> data.stargazers_count,
               lastCommitAt |-> IF Truthy(data.pushed_at) THEN data.pushed_at
                                ELSE data.updated_at,
               license      |-> LicenseOf(data.license),
               openIssues   |-> data.open_issues_count,
               description  |-> data.description,
               error        |-> FALSE ]

\* The value the promise of fetchRepoStats resolves to, given what fetch and
\* json() give.  Every exception inside the try block ends at line 164.
fetchRepoStats(response) ==
    IF ~response.network THEN ErrorStats
    ELSE IF response.status = 403 \/ response.status = 429
    THEN [ stars |-> 0, lastCommitAt |-> << >>, error |-> TRUE,
           isRateLimit |-> TRUE ]
    ELSE IF response.status = 404
    THEN [ stars |-> 0, lastCommitAt |-> << >>, isNotFound |-> TRUE,
           error |-> FALSE ]
    ELSE IF ~Ok(response) THEN ErrorStats
    ELSE IF response.body.json # "object" THEN ErrorStats
    ELSE LET data == response.body
         IN  [ stars        |-> data.stargazers_count,
               lastCommitAt |-> IF Truthy(data.pushed_at) THEN data.pushed_at
                                ELSE data.updated_at,
               license      |-> LicenseOf(data.license),
               openIssues   |-> data.open_issues_count,
               description  |-> data.description,
               error        |-> FALSE ]

FetchRepoStatsCalls ==
    { [fn |-> "fetchRepoStats", arg |-> r, ret |-> {}] : r \in Responses }

\* fetchRepoStats(owner, repo, token) resolves.
CallFetchRepoStats ==
    /\ call.fn = "fetchRepoStats" /\ ~Returned
    /\ call' = [call EXCEPT !.ret = { fetchRepoStats(call.arg) }]
    /\ UNCHANGED << mainVars, appVars >>

\* The bulk enrichment assigns a value for an alias only when no read of
\* the alias's data raises.
StatsForCalls ==
    { [fn |-> "StatsFor", arg |-> rd, ret |-> {}] :
        rd \in { d \in RepoDatas : ~ReadThrows(d) } }

\* group.stats = {...} of lines 326-343 for one alias.
CallStatsFor ==
    /\ call.fn = "StatsFor" /\ ~Returned
    /\ call' = [call EXCEPT !.ret = { StatsFor(call.arg) }]
    /\ UNCHANGED << mainVars, appVars >>

\* Arguments of the grouping pass: the descriptors of up to MaxFiles
\* distinct listed files, in any order, each with one of the texts.
GroupTexts == { TextAcme, TextBoth, TextJane, TextAuthorOwner }

ThemeLists ==
    UNION { { [i \in 1..n |-> ThemeItem(GitHubContentFile(ks[i]), txs[i])] :
                ks \in { f \in [1..n -> 1..MaxFiles] :
                            \A i, j \in 1..n : f[i] = f[j] => i = j },
                txs \in [1..n -> GroupTexts] } : n \in 0..MaxFiles }

GroupThemesCalls ==
    { [fn |-> "GroupThemes", arg |-> ts, ret |-> {}] : ts \in ThemeLists }

\* The grouping pass of lines 243-276 on one descriptor list.
CallGroupThemes ==
    /\ call.fn = "GroupThemes" /\ ~Returned
    /\ call' = [call EXCEPT !.ret = { GroupThemes(<< >>, call.arg) }]
    /\ UNCHANGED << mainVars, appVars >>

\* Arguments of the thumbnail normalization: no thumbnail, the empty
\* reference, and a file name behind each of several beginnings.
ThumbnailHeads ==
    { << >>, << "/" >>, << "/", "/" >>, << "media", "/" >>,
      << "http", "s", ":", "/", "/", "cdn.example", "/" >>,
      << "http", ":", "/", "/", "cdn.example", "/" >>,
      << "http", "-" >>,
      << "ftp", ":", "/", "/", "cdn.example", "/" >> }
Thumbnails ==
    { head \o << "dark.png" >> : head \in ThumbnailHeads }
        \cup { undefined, << >> }

NormalizeThumbnailCalls ==
    { [fn |-> "NormalizeThumbnail", arg |-> t, ret |-> {}] : t \in Thumbnails }

\* Lines 214-218 for one frontmatter.thumbnail.
CallNormalizeThumbnail ==
    /\ call.fn = "NormalizeThumbnail" /\ ~Returned
    /\ call' = [call EXCEPT !.ret = { NormalizeThumbnail(call.arg) }]
    /\ UNCHANGED << mainVars, appVars >>

(***************************************************************************)
(* The listing fetchers: fetchJson (update-themes.ts, lines 60-86) and     *)
(* fetchThemeList (githubService.ts, lines 75-96).                         *)
(***************************************************************************)
\* What the listing request may meet: the connection failing, or a status
\* with a body that is a JSON array, another JSON value, or no JSON.
ListStatuses == { 200, 403, 404, 429, 500 }
ListBodies == { "array", "object", "unparsable" }
ListNetworkError == [network |-> FALSE, status |-> 0, body |-> "unparsable"]
ListResponses ==
    { [network |-> TRUE, status |-> st, body |-> b] :
        st \in ListStatuses, b \in ListBodies } \cup { ListNetworkError }

\* How a promise settles: resolved, or rejected with an error object of
\* some class carrying a message.
Fulfilled == [settled |-> "resolved", errorClass |-> "none", message |-> << >>]
Rejected(errorClass, message) ==
    [settled |-> "rejected", errorClass |-> errorClass, message |-> message]

\* Lines 60-86 of update-themes.ts.
fetchJson(response) ==
    IF ~response.network THEN Rejected("Error", << "socket error" >>)
    ELSE IF response.status < 200 \/ response.status >= 300
    THEN Rejected("Error", << "Status Code: ", response.status >>)
    ELSE IF response.body = "unparsable"
    THEN Rejected("Error", << "Failed to parse JSON" >>)
    ELSE Fulfilled

\* Lines 75-96 of githubService.ts.
fetchThemeList(response) ==
    IF ~response.network THEN Rejected("TypeError", << "Failed to fetch" >>)
    ELSE IF response.status \notin 200..299
    THEN IF response.status = 403 \/ response.status = 429
         THEN Rejected("Error", << "GitHub API rate limit exceeded. Please add an API token using the key icon." >>)
         ELSE Rejected("Error", << "Failed to fetch theme list: ", response.status >>)
    ELSE IF response.body = "unparsable"
    THEN Rejected("SyntaxError", << "Unexpected token" >>)
    ELSE Fulfilled

FetchJsonCalls ==
    { [fn |-> "fetchJson", arg |-> r, ret |-> {}] : r \in ListResponses }
FetchThemeListCalls ==
    { [fn |-> "fetchThemeList", arg |-> r, ret |-> {}] : r \in ListResponses }

\* fetchJson(TYPORA_REPO_API, token) settles.
CallFetchJson ==
    /\ call.fn = "fetchJson" /\ ~Returned
    /\ call' = [call EXCEPT !.ret = { fetchJson(call.arg) }]
    /\ UNCHANGED << mainVars, appVars >>

\* fetchThemeList(token) settles.
CallFetchThemeList ==
    /\ call.fn = "fetchThemeList" /\ ~Returned
    /\ call' = [call EXCEPT !.ret = { fetchThemeList(call.arg) }]
    /\ UNCHANGED << mainVars, appVars >>

(***************************************************************************)
(* The specification of the helper calls.                                  *)
(***************************************************************************)
InitFn ==
    /\ pc = "start"
    /\ token = TRUE
    /\ files = << >>
    /\ ci = 1
    /\ pending = {}
    /\ themes = << >>
    /\ groupList = << >>
    /\ validGroups = << >>
    /\ bi = 1
    /\ inflight = {}
    /\ batchLog = EmptyMap
    /\ statsWrites = << >>
    /\ requests = {}
    /\ issued = << >>
    /\ listing = "none"
    /\ artifact = PreviousArtifact
    /\ exitCode = -1
    /\ \/ call \in ResolveCalls
       \/ call \in ParseCalls
       \/ call \in ThemeItemCalls
       \/ call \in FetchRepoStatsCalls
       \/ call \in StatsForCalls
       \/ call \in GroupThemesCalls
       \/ call \in NormalizeThumbnailCalls
       \/ call \in FetchJsonCalls
       \/ call \in FetchThemeListCalls
    /\ AppNotStarted

NextFn ==
    \/ CallGetRepoInfoFromUrl
    \/ CallParseFrontmatter
    \/ CallThemeItem
    \/ CallFetchRepoStats
    \/ CallStatsFor
    \/ CallGroupThemes
    \/ CallNormalizeThumbnail
    \/ CallFetchJson
    \/ CallFetchThemeList

SpecFn == InitFn /\ [][NextFn]_vars

(***************************************************************************)
(* Properties of getRepoInfoFromUrl.                                       *)
(***************************************************************************)
RepoNames == { "acme", "theme-x" }

Resolved(call_) == call_.fn = "getRepoInfoFromUrl" /\ call_.ret # {}

\* C13: for every owner o and repository name r, the URL
\* https://github.com/o/r and the same URL followed by ".git", by "/" and by
\* ".git/" all resolve to the identity (o, r).
C13_SuffixVariantsAgree ==
    Resolved(call) =>
        \A o \in RepoNames, r \in RepoNames, sfx \in UrlSuffixes :
            call.arg = Url("github.com", o, r) \o sfx
                => Ret = [owner |-> << o >>, repo |-> << r >>]

\* Whether s parses as a URL of a recognized hostname with at least two
\* non-empty path segments, and the identity its first two segments name.
PathSegments(s) == FilterNonEmpty(Split(ParseURL(s).pathname, "/"))
Recognized(s) ==
    /\ ParseURL(s).ok
    /\ ParseURL(s).hostname \in { << "github.com" >>, << "www.github.com" >> }
    /\ Len(PathSegments(s)) >= 2
FirstTwoSegments(s) ==
    [owner |-> PathSegments(s)[1], repo |-> PathSegments(s)[2]]

\* s without one trailing ".git" and then without one trailing "/".
WithoutSuffix(s) ==
    LET a == IF s # << >> /\ s[Len(s)] = ".git" THEN SubSeq(s, 1, Len(s) - 1)
             ELSE s
    IN  IF a # << >> /\ a[Len(a)] = "/" THEN SubSeq(a, 1, Len(a) - 1) ELSE a

\* C14 as stated: the result is the first two path segments exactly when
\* the trimmed argument parses as a URL of a recognized hostname with at
\* least two non-empty segments, and is unresolved for every other argument;
\* a returned owner or name is never empty.
C14_ExactlyWhenTrimmedParses ==
    Resolved(call) =>
        /\ IF Truthy(call.arg) /\ Recognized(Trim(call.arg))
           THEN Ret = FirstTwoSegments(Trim(call.arg))
           ELSE Ret = NoRepo
        /\ Ret # NoRepo => (Truthy(Ret.owner) /\ Truthy(Ret.repo))

\* C14: the result is the first two path segments exactly when the trimmed
\* argument, after removing one trailing ".git" and then one trailing "/",
\* parses as a URL of a recognized hostname with at least two non-empty
\* segments; every other argument (undefined, empty, unparsable, another
\* hostname, fewer than two segments) gives unresolved, and a returned owner
\* or name is never empty.
C14_ExactlyWhenCleanedParses ==
    Resolved(call) =>
        /\ IF Truthy(call.arg) /\ Recognized(WithoutSuffix(Trim(call.arg)))
           THEN Ret = FirstTwoSegments(WithoutSuffix(Trim(call.arg)))
           ELSE Ret = NoRepo
        /\ Ret # NoRepo => (Truthy(Ret.owner) /\ Truthy(Ret.repo))

C14_Witness ==
    /\ Resolved(call)
    /\ call.arg = << " " >> \o Url("www.github.com", "acme", "theme-x")
                     \o << "/", "acme", ".git", " " >>
    /\ Ret = [owner |-> << "acme" >>, repo |-> << "theme-x" >>]

(***************************************************************************)
(* Properties of the Stats values.                                         *)
(***************************************************************************)
Flag(stats, name) == name \in DOMAIN stats /\ stats[name] = TRUE
NoFlag(stats, name) == name \notin DOMAIN stats

NormalKind(stats) ==
    "error" \in DOMAIN stats /\ stats.error = FALSE /\ NoFlag(stats, "isNotFound")
NotFoundKind(stats) ==
    Flag(stats, "isNotFound") /\ "error" \in DOMAIN stats /\ stats.error = FALSE
ErrorKind(stats) == Flag(stats, "error") /\ NoFlag(stats, "isNotFound")

StatsProduced == call.fn \in { "fetchRepoStats", "StatsFor" } /\ Returned

\* C15: every Stats value produced by the bulk enrichment or by
\* fetchRepoStats is of exactly one of the kinds normal, not-found and error,
\* and isRateLimit = true occurs only together with error = true.
C15_ExactlyOneKind ==
    StatsProduced =>
        /\ Cardinality({ kind \in { "normal", "notFound", "error" } :
                \/ kind = "normal" /\ NormalKind(Ret)
                \/ kind = "notFound" /\ NotFoundKind(Ret)
                \/ kind = "error" /\ ErrorKind(Ret) }) = 1
        /\ Flag(Ret, "isRateLimit") => Flag(Ret, "error")

C15_Witness ==
    /\ call.fn = "StatsFor" /\ Returned
    /\ ~call.arg.present
    /\ NotFoundKind(Ret)

\* C16: fetchRepoStats classifies every response: 403 or 429 gives error
\* with isRateLimit; 404 gives isNotFound without error; any other non-2xx
\* status and a network-level exception give error alone; only a 2xx
\* response gives normal data.
C16_Classifies ==
    (call.fn = "fetchRepoStats" /\ Returned) =>
        LET response == call.arg
        IN  /\ ~response.network =>
                  /\ ErrorKind(Ret)
                  /\ NoFlag(Ret, "isRateLimit")
            /\ (response.network /\ response.status \in { 403, 429 }) =>
                  /\ ErrorKind(Ret)
                  /\ Flag(Ret, "isRateLimit")
            /\ (response.network /\ response.status = 404) =>
                  /\ NotFoundKind(Ret)
                  /\ NoFlag(Ret, "isRateLimit")
            /\ (response.network /\ response.status \notin 200..299
                  /\ response.status \notin { 403, 404, 429 }) =>
                  /\ ErrorKind(Ret)
                  /\ NoFlag(Ret, "isRateLimit")
            /\ NormalKind(Ret) =>
                  (response.network /\ response.status \in 200..299)

C16_Witness ==
    /\ call.fn = "fetchRepoStats" /\ Returned
    /\ call.arg.network /\ call.arg.status = 429
    /\ Flag(Ret, "isRateLimit")

(***************************************************************************)
(* Properties of parseFrontmatter.                                         *)
(***************************************************************************)
Parsed == call.fn = "parseFrontmatter" /\ Returned

\* The text up to its first line break (all of it when it has none).
FirstLineOf(text) ==
    IF IndexOf(text, "\n") = 0 THEN text
    ELSE SubSeq(text, 1, IndexOf(text, "\n") - 1)

\* The first line is a delimiter line: it holds the delimiter token only.
BeginsWithDelimiter(text) == Trim(FirstLineOf(text)) = << "---" >>

\* C17: for every text whose first line is not the delimiter line,
\* parseFrontmatter returns the empty mapping (the empty text and a text
\* with no line break included).
C17_NoDelimiterEmptyMapping ==
    (Parsed /\ ~BeginsWithDelimiter(call.arg)) => DOMAIN Ret = {}

C17_Witness ==
    /\ Parsed
    /\ FirstLineOf(call.arg) = << "#" >>
    /\ call.key = << "title" >> /\ Trim(call.value) = << "a" >>
    /\ Ret = EmptyMap

\* The mapping written back: a delimiter line, one "key: value" line per
\* entry, and a closing delimiter line.
RECURSIVE SerializeEntries(_, _)
SerializeEntries(data, keys) ==
    IF keys = {} THEN << >>
    ELSE LET key == CHOOSE k \in keys : TRUE
         IN  key \o << ":", " " >> \o data[key] \o << "\n" >>
                 \o SerializeEntries(data, keys \ {key})

Serialize(data) ==
    << "---", "\n" >> \o SerializeEntries(data, DOMAIN data) \o << "---", "\n" >>

QuoteChars == { "\"", "'" }

\* value begins and ends with the same quote character.
QuoteWrapped(value) ==
    value # << >> /\ value[1] \in QuoteChars /\ value[Len(value)] = value[1]

KeptKey == call.key # << >> /\ (call.key = << "title" >> => IndexOf(call.more, ":") = 0)

\* C19: the stored value is the trimmed value without its outer quote
\* characters when the trimmed value has at least two characters and its
\* first and last are both '"' or both "'"; every other value, a single
\* quote character included, is stored as trimmed.
C19_QuoteStripping ==
    (Parsed /\ BeginsWithDelimiter(call.arg) /\ KeptKey) =>
        LET value == Trim(call.value)
        IN  /\ call.key \in DOMAIN Ret
            /\ Ret[call.key] =
                  IF Len(value) >= 2 /\ QuoteWrapped(value)
                  THEN SubSeq(value, 2, Len(value) - 1)
                  ELSE value

(***************************************************************************)
(* Properties of the descriptor construction.                              *)
(***************************************************************************)
\* The file name without its ".md" extension and without a leading date
\* prefix.
BareName(name) ==
    LET stem == SelectSeq(name, LAMBDA c : c # ".md")
    IN  SelectSeq(stem, LAMBDA c : c \notin DatePrefixes)

\* C20: every descriptor built for a file name ending in ".md" has a
\* non-empty title; when the front matter gives no title or an empty one,
\* the title is the file name without the extension and the date prefix.
C20_TitleNeverEmpty ==
    (call.fn = "ThemeItem" /\ Returned) =>
        /\ Truthy(Ret.title)
        /\ ~Truthy(Get(parseFrontmatter(call.arg.text), << "title" >>))
              => Ret.title = BareName(call.arg.file.name)

(***************************************************************************)
(* Properties of the written groups.                                       *)
(***************************************************************************)
Written == artifact.state = "complete"

Membership(groups) ==
    { [id |-> groups[g].id, members |-> Range(groups[g].themes)] :
        g \in 1..Len(groups) }

\* The rearrangements of a list.
Rearrangements(list) ==
    { [i \in 1..Len(list) |-> list[p[i]]] : p \in Permutations(1..Len(list)) }

\* C22: for every permutation of the same descriptor list, grouping yields
\* the same set of group ids and, for each id, the same set of members.
C22_MembershipOrderIndependent ==
    (call.fn = "GroupThemes" /\ Returned) =>
        \A list \in Rearrangements(call.arg) :
            Membership(GroupThemes(<< >>, list)) = Membership(Ret)

C22_Witness ==
    /\ call.fn = "GroupThemes" /\ Returned
    /\ Len(call.arg) = 3 /\ Len(Ret) = 2
    /\ \E list \in Rearrangements(call.arg) :
          /\ GroupThemes(<< >>, list) # Ret
          /\ Membership(GroupThemes(<< >>, list)) = Membership(Ret)

(***************************************************************************)
(* Properties of the listing fetchers.                                     *)
(***************************************************************************)
\* What a caller can tell about an outcome apart from the message text.
OutcomeType(outcome) ==
    [settled |-> outcome.settled, errorClass |-> outcome.errorClass]

RateLimited(response) == response.network /\ response.status \in { 403, 429 }
GenuineFailure(response) ==
    ~response.network \/ response.status \in { 404, 500 }

\* The outcome the fetcher of the current call gives for a response.
OutcomeOf(response) ==
    IF call.fn = "fetchJson" THEN fetchJson(response) ELSE fetchThemeList(response)

\* C23: the outcome of a listing request rejected with 403 or 429 has a
\* type that no outcome of a genuine failure (404, 500, network error) has.
C23_RateLimitTyped ==
    (/\ call.fn \in { "fetchJson", "fetchThemeList" } /\ Returned
     /\ RateLimited(call.arg)) =>
        \A response \in ListResponses :
            GenuineFailure(response) =>
                OutcomeType(OutcomeOf(response)) # OutcomeType(Ret)

(***************************************************************************)
(* Properties of the thumbnail normalization.                              *)
(***************************************************************************)
\* The reference is an absolute URL: a scheme followed by "://".
AbsoluteUrl(ref) ==
    \E n \in 1..2 :
        /\ Len(ref) >= n + 3
        /\ ref[n + 1] = ":" /\ ref[n + 2] = "/" /\ ref[n + 3] = "/"
        /\ \A k \in 1..n : ref[k] \notin { "/", ":" }

WithoutLeadingSeparator(ref) ==
    IF ref # << >> /\ ref[1] = "/" THEN Tail(ref) ELSE ref

\* C24: an absolute URL is left unchanged; every other non-empty reference
\* becomes the base media URL followed by the reference without its leading
\* path separator, with no doubled "/" at the join; no thumbnail stays none.
C24_ThumbnailNormalized ==
    (call.fn = "NormalizeThumbnail" /\ Returned) =>
        IF ~Truthy(call.arg) THEN Ret = call.arg
        ELSE IF AbsoluteUrl(call.arg) THEN Ret = call.arg
        ELSE /\ Ret = THUMBNAIL_BASE_URL \o WithoutLeadingSeparator(call.arg)
             /\ Ret[Len(THUMBNAIL_BASE_URL) + 1] # "/"

(***************************************************************************)
(* Properties of an answered batch.                                        *)
(***************************************************************************)
\* C27: after a batch whose bulk query returned a response, every group of
\* the batch has Stats, of the normal or of the not-found kind, whatever
\* the response holds under each alias.
C27_AnsweredBatchAllSet ==
    \A b \in DOMAIN batchLog :
        ~batchLog[b].threw =>
            \A idx \in 1..Len(BatchAt(b)) :
                \E stats \in groupList[BatchAt(b)[idx]].stats :
                    NormalKind(stats) \/ NotFoundKind(stats)

(***************************************************************************)
(* The interactive client (App, githubService.ts lines 170-544): the       *)
(* background stats queue, the refresh handlers and the token.             *)
(***************************************************************************)
QUEUE_BATCH_SIZE == 2
MaxBatches == 2
MaxSingles == 1

\* The themes array in its order; the last theme has no resolved repository.
ThemeOrder == << "nord", "mono", "plain" >>
ThemeIds == Range(ThemeOrder)
HasRepo(id) == id # "plain"

\* What a single-item lookup may resolve to: the results of fetchRepoStats
\* for a 200 with data, a 404, a 403 and a 500.
LookupResponses ==
    { [network |-> TRUE, status |-> 200, body |-> BodyFull],
      [network |-> TRUE, status |-> 404, body |-> BodyNull],
      [network |-> TRUE, status |-> 403, body |-> BodyNull],
      [network |-> TRUE, status |-> 500, body |-> BodyNull] }
LookupOutcomes == { fetchRepoStats(response) : response \in LookupResponses }

\* stats?.isRateLimit
IsRateLimit(stats) == \E st \in stats : Flag(st, "isRateLimit")

\* A variant of NeedsUpdate that retries a rate-limited theme without a
\* token too.
NeedsUpdateNoToken(themes_, token_, id) ==
    /\ themes_[id].repo
    /\ (themes_[id].loadingStats \/ IsRateLimit(themes_[id].stats))

\* Lines 316-318: the filter predicate of themesToUpdate.
NeedsUpdate(themes_, token_, id) ==
    /\ themes_[id].repo
    /\ (themes_[id].loadingStats \/ (IsRateLimit(themes_[id].stats) /\ token_))

ThemesToUpdate(themes_, token_) ==
    SelectSeq(ThemeOrder, LAMBDA id : NeedsUpdate(themes_, token_, id))

\* themesToUpdate.slice(0, BATCH_SIZE)
FirstBatch(ids) ==
    SubSeq(ids, 1, IF Len(ids) < QUEUE_BATCH_SIZE THEN Len(ids) ELSE QUEUE_BATCH_SIZE)

\* The cleanup of the previous queue effect (lines 351-355) followed by the
\* effect itself (lines 309-349) for the new themes and token: every batch
\* of the previous effect is unmounted, its timeout cleared, and a timeout
\* is set when some theme needs an update.  running are the batches still
\* in flight.
EffectRuns(themes_, token_, running) ==
    /\ batches' = [b \in 1..Len(running) |-> [running[b] EXCEPT !.mounted = FALSE]]
    /\ toUpdate' = ThemesToUpdate(themes_, token_)
    /\ timer' = IF ThemesToUpdate(themes_, token_) = << >> THEN "none" ELSE "armed"

\* The pipeline and the helper calls stay as they are.
ClientOnly == UNCHANGED << mainVars, call >>

\* The state after loadData has stored the themes (lines 229-255: every
\* theme with loadingStats: true and no stats) and the queue effect has run
\* for them.
InitialThemes ==
    [id \in ThemeIds |-> [repo |-> HasRepo(id), loadingStats |-> TRUE, stats |-> NoStats]]

InitApp ==
    /\ pc = "start"
    /\ token = TRUE
    /\ files = << >>
    /\ ci = 1
    /\ pending = {}
    /\ themes = << >>
    /\ groupList = << >>
    /\ validGroups = << >>
    /\ bi = 1
    /\ inflight = {}
    /\ batchLog = EmptyMap
    /\ statsWrites = << >>
    /\ requests = {}
    /\ issued = << >>
    /\ listing = "none"
    /\ artifact = PreviousArtifact
    /\ exitCode = -1
    /\ call = NoCall
    /\ appThemes = InitialThemes
    /\ apiToken \in BOOLEAN
    /\ rateLimitExceeded = FALSE
    /\ timer = "armed"
    /\ toUpdate = ThemesToUpdate(InitialThemes, apiToken)
    /\ batches = << >>
    /\ singles = << >>

\* DELAY_MS elapse after setTimeout(processBatch, DELAY_MS) (line 349).
DelayElapses ==
    /\ timer = "armed"
    /\ timer' = "due"
    /\ UNCHANGED << appThemes, apiToken, rateLimitExceeded, toUpdate, batches, singles >>
    /\ ClientOnly

\* Lines 325-329: the timeout fires and processBatch starts one lookup for
\* each theme of the first BATCH_SIZE themes to update.
ProcessBatch ==
    /\ timer = "due"
    /\ Len(batches) < MaxBatches
    /\ batches' = Append(batches,
                         [ mounted |-> TRUE,
                           pending |-> Range(FirstBatch(toUpdate)),
                           updates |-> {} ])
    /\ timer' = "none"
    /\ UNCHANGED << appThemes, apiToken, rateLimitExceeded, toUpdate, singles >>
    /\ ClientOnly

\* pos removed from a list.
Without(list, pos) == SubSeq(list, 1, pos - 1) \o SubSeq(list, pos + 1, Len(list))

\* setThemes of lines 343-346.
ApplyUpdates(themes_, updates) ==
    [id \in ThemeIds |->
        IF \E u \in updates : u.id = id
        THEN [themes_[id] EXCEPT
                !.stats = { (CHOOSE u \in updates : u.id = id).stats },
                !.loadingStats = FALSE]
        ELSE themes_[id]]

\* Lines 330-347: the lookup of theme id in batch b resolves to outcome;
\* when it is the last of the batch, Promise.all resolves and the batch
\* applies its updates if its effect is still mounted.
LookupReturns(b, id, outcome) ==
    /\ b \in 1..Len(batches)
    /\ id \in batches[b].pending
    /\ rateLimitExceeded' =
          IF Flag(outcome, "isRateLimit") THEN TRUE ELSE rateLimitExceeded
    /\ LET stillPending == batches[b].pending \ {id}
           updates == batches[b].updates \cup { [id |-> id, stats |-> outcome] }
       IN  IF stillPending # {}
           THEN /\ batches' = [batches EXCEPT ![b] =
                                 [@ EXCEPT !.pending = stillPending,
                                           !.updates = updates]]
                /\ UNCHANGED << appThemes, timer, toUpdate >>
           ELSE IF ~batches[b].mounted
           THEN /\ batches' = Without(batches, b)
                /\ UNCHANGED << appThemes, timer, toUpdate >>
           ELSE /\ appThemes' = ApplyUpdates(appThemes, updates)
                /\ EffectRuns(ApplyUpdates(appThemes, updates), apiToken,
                              Without(batches, b))
    /\ UNCHANGED << apiToken, singles >>
    /\ ClientOnly

\* Lines 284-306 up to the await: the refresh button of theme id is clicked
\* (the button is disabled while the theme's loadingStats is set,
\* ThemeCard.tsx line 104).
RefreshSingleTheme(id) ==
    /\ id \in ThemeIds
    /\ appThemes[id].repo
    /\ ~appThemes[id].loadingStats
    /\ Len(singles) < MaxSingles
    /\ appThemes' = [appThemes EXCEPT ![id].loadingStats = TRUE]
    /\ singles' = Append(singles, id)
    /\ EffectRuns([appThemes EXCEPT ![id].loadingStats = TRUE], apiToken, batches)
    /\ UNCHANGED << apiToken, rateLimitExceeded >>
    /\ ClientOnly

\* Lines 295-298: the lookup of a single-theme refresh resolves.  (The catch
\* of lines 299-305 is never entered: fetchRepoStats does not reject.)
SingleReturns(pos, outcome) ==
    /\ pos \in 1..Len(singles)
    /\ rateLimitExceeded' =
          IF Flag(outcome, "isRateLimit") THEN TRUE ELSE rateLimitExceeded
    /\ LET after == [appThemes EXCEPT ![singles[pos]] =
                        [@ EXCEPT !.stats = { outcome }, !.loadingStats = FALSE]]
       IN  /\ appThemes' = after
           /\ EffectRuns(after, apiToken, batches)
    /\ singles' = Without(singles, pos)
    /\ UNCHANGED apiToken
    /\ ClientOnly

\* Lines 275-281: stats-only refresh.
HandleStatsRefresh ==
    /\ LET after == [id \in ThemeIds |->
                        [appThemes[id] EXCEPT
                            !.loadingStats = TRUE,
                            !.stats = { [st EXCEPT !.error = FALSE] : st \in @ }]]
       IN  /\ appThemes' = after
           /\ EffectRuns(after, apiToken, batches)
    /\ UNCHANGED << apiToken, rateLimitExceeded, singles >>
    /\ ClientOnly

\* setApiToken and the token effect of lines 208-217: a token is entered or
\* removed, and the rate-limit warning is reset.
SetApiToken ==
    /\ apiToken' = ~apiToken
    /\ rateLimitExceeded' = FALSE
    /\ EffectRuns(appThemes, ~apiToken, batches)
    /\ UNCHANGED << appThemes, singles >>
    /\ ClientOnly

NextApp ==
    \/ DelayElapses
    \/ ProcessBatch
    \/ \E b \in 1..MaxBatches, id \in ThemeIds, outcome \in LookupOutcomes :
          LookupReturns(b, id, outcome)
    \/ \E id \in ThemeIds : RefreshSingleTheme(id)
    \/ \E pos \in 1..MaxSingles, outcome \in LookupOutcomes :
          SingleReturns(pos, outcome)
    \/ HandleStatsRefresh
    \/ SetApiToken

SpecApp == InitApp /\ [][NextApp]_vars

(***************************************************************************)
(* Properties of the interactive client.                                   *)
(***************************************************************************)
\* The single-item lookups started by the queue that have not resolved yet,
\* over every batch, whether its effect is still current or not.
QueueLookups ==
    { p \in (1..Len(batches)) \X ThemeIds : p[2] \in batches[p[1]].pending }

QueueInFlight == Cardinality(QueueLookups)

\* C25: at any moment at most BATCH_SIZE lookups started by the stats queue
\* are in flight, and a batch starts only once the delay armed by the last
\* state change has elapsed, under every interleaving with the user actions.
C25_QueueBounded ==
    /\ [](QueueInFlight <= QUEUE_BATCH_SIZE)
    /\ [][Len(batches') > Len(batches) => timer = "due"]_vars

\* The latest outcome recorded on a theme, by kind.
LatestNotFound(id) == \E st \in appThemes[id].stats : Flag(st, "isNotFound")
LatestRateLimited(id) == \E st \in appThemes[id].stats : Flag(st, "isRateLimit")

\* A step on which the queue starts a batch, and the lookups it issues.
QueueBatchStarts == Len(batches') > Len(batches)
QueueIssues == batches'[Len(batches')].pending

\* C26: the queue issues a lookup for a theme only if the theme has a
\* resolved repository and either its loadingStats flag is set or its
\* latest Stats is rate-limited while a token is present; a theme at rest
\* on a not-found outcome, or on a rate-limited one without a token, is not
\* looked up by the queue.
C26_QueueLooksUpOnlyDue ==
    [][QueueBatchStarts =>
          \A id \in QueueIssues :
             /\ HasRepo(id)
             /\ \/ appThemes[id].loadingStats
                \/ (LatestRateLimited(id) /\ apiToken)
             /\ ~(/\ ~appThemes[id].loadingStats
                  /\ (LatestNotFound(id) \/ (LatestRateLimited(id) /\ ~apiToken)))]_vars

\* A batch of the current effect is looking up a theme that is not loading
\* and is retried because it is rate-limited and a token is present, while
\* another theme rests on a not-found outcome.
C26_Witness ==
    /\ apiToken
    /\ \E b \in 1..Len(batches) :
          /\ batches[b].mounted
          /\ \E id \in batches[b].pending :
                ~appThemes[id].loadingStats /\ LatestRateLimited(id)
    /\ \E id \in ThemeIds : ~appThemes[id].loadingStats /\ LatestNotFound(id)

\* C28: in every reachable state of the client, every theme's Stats that has
\* isRateLimit set has error set too.
C28_RateLimitImpliesError ==
    \A id \in ThemeIds :
       \A st \in appThemes[id].stats :
          Flag(st, "isRateLimit") => Flag(st, "error")

\* The lookups still in flight of batches whose effect has been abandoned.
AbandonedLookups ==
    { p \in QueueLookups : ~batches[p[1]].mounted }

\* A step on which a lookup of an abandoned batch resolves: no other step
\* lowers the number of abandoned lookups in flight.
AbandonedLookupReturns ==
    Cardinality(AbandonedLookups') < Cardinality(AbandonedLookups)

\* A step that changes a dependency of the queue effect, and so abandons it.
EffectAbandoned == appThemes' # appThemes \/ apiToken' # apiToken

\* C29: once the queue effect is abandoned, its batch is not started if it
\* had not started yet, and a batch already in flight changes no state
\* afterwards: no theme's stats or loading flag, and not the
\* rate-limit-exceeded flag.
C29_AbandonedBatchSilent ==
    /\ [][EffectAbandoned => (timer' # "due" /\ ~QueueBatchStarts)]_vars
    /\ [][AbandonedLookupReturns =>
             /\ appThemes' = appThemes
             /\ rateLimitExceeded' = rateLimitExceeded]_vars

(***************************************************************************)
(* The client under the assumption that what is pending happens: a timer   *)
(* that was set fires (line 350), the callback of a timer that fired runs, *)
(* and a lookup that was sent resolves (fetchRepoStats always resolves,    *)
(* lines 131-167).  Nothing is assumed about the user.                     *)
(***************************************************************************)
LookupResolves ==
    \E b \in 1..MaxBatches, id \in ThemeIds, outcome \in LookupOutcomes :
       LookupReturns(b, id, outcome)

SingleResolves ==
    \E pos \in 1..MaxSingles, outcome \in LookupOutcomes :
       SingleReturns(pos, outcome)

SpecAppFair ==
    /\ InitApp
    /\ [][NextApp]_vars
    /\ WF_vars(DelayElapses)
    /\ WF_vars(ProcessBatch)
    /\ WF_vars(LookupResolves)
    /\ WF_vars(SingleResolves)

\* A step taken by the user.
UserAction ==
    \/ \E id \in ThemeIds : RefreshSingleTheme(id)
    \/ HandleStatsRefresh
    \/ SetApiToken

\* No theme with a repository is loading, no timer is set and no lookup of
\* the queue is in flight.
Quiescent ==
    /\ \A id \in ThemeIds : HasRepo(id) => ~appThemes[id].loadingStats
    /\ timer = "none"
    /\ QueueLookups = {}

\* C30: if every lookup eventually returns and the user eventually stops
\* acting, the queue eventually stays in a state where no theme with a
\* repository is loading and no further lookup is issued, whatever the
\* lookups return and whether or not a token is set.
C30_QueueQuiesces ==
    ([]<><<UserAction>>_vars) \/ <>[]Quiescent

====
